---- MODULE Spec2Model ----
(***************************************************************************)
(* Model of src/data_format/v0.rs: the v0 persistence format of the        *)
(* adblock engine.  The engine state (Blocker, CosmeticFilterCache) is      *)
(* viewed through SerializeFormat, written as                               *)
(*     ADBLOCK_RUST_DAT_MAGIC ++ <<0>> ++ MessagePack(record)               *)
(* read back by DeserializeFormat::deserialize and moved into a new         *)
(* (Blocker, CosmeticFilterCache).                                          *)
(*                                                                         *)
(* Bytes are naturals in 0..255.  MessagePack is modelled at the byte       *)
(* level for the markers the 17 fields need: positive fixint, fixstr,       *)
(* fixarray / array16, fixmap, true and false.                              *)
(***************************************************************************)
EXTENDS Integers, Sequences, FiniteSets, TLC

VARIABLES
    blocker,     \* the live Blocker the engine owner holds
    cfc,         \* the live CosmeticFilterCache the engine owner holds
    format,      \* SerializeFormat<'a>: the borrowed view, or NoValue
    output,      \* the Vec<u8> returned by serialize, or NoValue
    serialized,  \* the &[u8] argument handed to deserialize, or NoValue
    origin,      \* where that argument came from (history of the caller)
    result,      \* what deserialize did: Ok(format) / Err(e) / panic
    engine,      \* the (Blocker, CosmeticFilterCache) rebuilt by From, or NoValue
    pc           \* position in the owner's save / load sequence

vars == <<blocker, cfc, format, output, serialized, origin, result, engine, pc>>

NoValue == "none"

----------------------------------------------------------------------------
(* Bounds of the model *)

\* longest rule list held by a bucket or by the tagged-rule pool
MaxRules == 2
\* most elements of a selector set
MaxSelectors == 2
\* most entries of a selector map
MaxEntries == 2
\* most trailing fields a newer schema revision appends to the record
MaxExtra == 1

----------------------------------------------------------------------------
(* Generic helpers *)

Range(s) == {s[i] : i \in 1..Len(s)}

RECURSIVE Flatten(_)
Flatten(ss) == IF ss = <<>> THEN <<>> ELSE Head(ss) \o Flatten(Tail(ss))

\* byte-wise lexicographic order on byte sequences (a proper prefix is smaller)
RECURSIVE LexLess(_, _)
LexLess(a, b) ==
    IF b = <<>> THEN FALSE
    ELSE IF a = <<>> THEN TRUE
    ELSE IF Head(a) < Head(b) THEN TRUE
    ELSE IF Head(a) > Head(b) THEN FALSE
    ELSE LexLess(Tail(a), Tail(b))

\* all sequences over S of length lo..hi
SeqsOf(S, lo, hi) == UNION {[1..n -> S] : n \in lo..hi}

\* sequences without repeated elements
Injective(s) == \A i, j \in 1..Len(s) : i # j => s[i] # s[j]

----------------------------------------------------------------------------
(* Value domains of the engine state *)

\* compiled network rules (NetworkFilter), opaque to this module
Rules == {1, 2, 3}
\* selector strings (String), as their UTF-8 bytes: "a", "b" and "ab"
Strings == {<<97>>, <<98>>, <<97, 98>>}
\* activation tags held by Blocker.tags_enabled
Tags == {"t"}
\* RedirectResourceStorage, ScriptletResourceStorage, HostnameRuleDb: round-tripped
\* as a unit, modelled as an identifier; 0 is the Default::default() value
Opaques == {0, 1, 2, 3}

\* NetworkFilterList / Vec<NetworkFilter>: rules in evaluation order
RuleLists == SeqsOf(Rules, 0, MaxRules)
\* Vec<String>: the ordered selectors of one map entry
\* (one selector, or two in either order)
StringLists == {<< <<97>> >>, << <<97>>, <<97, 98>> >>, << <<97, 98>>, <<97>> >>}
\* HashSet<String>: its elements in native iteration order
HashSets == {s \in SeqsOf(Strings, 0, MaxSelectors) : Injective(s)}
\* HashMap<String, Vec<String>>: its <<key, value>> entries in native iteration order
HashMaps ==
    {m \in SeqsOf(Strings \X StringLists, 0, MaxEntries) :
        \A i, j \in 1..Len(m) : i # j => m[i][1] # m[j][1]}

\* membership of a HashSet, and the key -> value function of a HashMap
Members(h) == Range(h)
Keys(m) == {m[i][1] : i \in 1..Len(m)}
Lookup(m, k) == (CHOOSE i \in 1..Len(m) : m[i][1] = k)
MapOf(m) == [k \in Keys(m) |-> m[Lookup(m, k)][2]]

\* HashSet::insert / HashMap::insert while a collection is rebuilt from a sequence
RECURSIVE CollectSet(_, _)
CollectSet(items, acc) ==
    IF items = <<>> THEN acc
    ELSE CollectSet(Tail(items),
                    IF Head(items) \in Range(acc) THEN acc ELSE Append(acc, Head(items)))

RECURSIVE CollectMap(_, _)
CollectMap(entries, acc) ==
    IF entries = <<>> THEN acc
    ELSE LET e == Head(entries)
         IN  CollectMap(Tail(entries),
                 IF e[1] \in Keys(acc)
                 THEN [acc EXCEPT ![Lookup(acc, e[1])] = e]
                 ELSE Append(acc, e))

\* Default::default() of each field type
DefaultOf(type) ==
    CASE type = "list"   -> <<>>
      [] type = "bool"   -> FALSE
      [] type = "opaque" -> 0
      [] type = "set"    -> <<>>
      [] type = "map"    -> <<>>

ValuesOf(type) ==
    CASE type = "list"   -> RuleLists
      [] type = "bool"   -> BOOLEAN
      [] type = "opaque" -> Opaques
      [] type = "set"    -> HashSets
      [] type = "map"    -> HashMaps

----------------------------------------------------------------------------
(* The two declarations of the schema *)

\* the writer's declaration with the serialize_with attribute left off one set
SerializeFormatUnstable ==
    << [name |-> "csp",                    type |-> "list",   with |-> "derive"],
       [name |-> "exceptions",             type |-> "list",   with |-> "derive"],
       [name |-> "importants",             type |-> "list",   with |-> "derive"],
       [name |-> "redirects",              type |-> "list",   with |-> "derive"],
       [name |-> "filters_tagged",         type |-> "list",   with |-> "derive"],
       [name |-> "filters",                type |-> "list",   with |-> "derive"],
       [name |-> "generic_hide",           type |-> "list",   with |-> "derive"],
       [name |-> "tagged_filters_all",     type |-> "list",   with |-> "derive"],
       [name |-> "enable_optimizations",   type |-> "bool",   with |-> "derive"],
       [name |-> "resources",              type |-> "opaque", with |-> "derive"],
       [name |-> "simple_class_rules",     type |-> "set",    with |-> "stabilize_hashset_serialization"],
       [name |-> "simple_id_rules",        type |-> "set",    with |-> "stabilize_hashset_serialization"],
       [name |-> "complex_class_rules",    type |-> "map",    with |-> "stabilize_hashmap_serialization"],
       [name |-> "complex_id_rules",       type |-> "map",    with |-> "stabilize_hashmap_serialization"],
       [name |-> "specific_rules",         type |-> "opaque", with |-> "derive"],
       [name |-> "misc_generic_selectors", type |-> "set",    with |-> "derive"],
       [name |-> "scriptlets",             type |-> "opaque", with |-> "derive"] >>

\* struct SerializeFormat<'a>: the fields in declaration order, each with its
\* type and its serialize_with attribute ("derive" when it has none)
SerializeFormat ==
    << [name |-> "csp",                    type |-> "list",   with |-> "derive"],
       [name |-> "exceptions",             type |-> "list",   with |-> "derive"],
       [name |-> "importants",             type |-> "list",   with |-> "derive"],
       [name |-> "redirects",              type |-> "list",   with |-> "derive"],
       [name |-> "filters_tagged",         type |-> "list",   with |-> "derive"],
       [name |-> "filters",                type |-> "list",   with |-> "derive"],
       [name |-> "generic_hide",           type |-> "list",   with |-> "derive"],
       [name |-> "tagged_filters_all",     type |-> "list",   with |-> "derive"],
       [name |-> "enable_optimizations",   type |-> "bool",   with |-> "derive"],
       [name |-> "resources",              type |-> "opaque", with |-> "derive"],
       [name |-> "simple_class_rules",     type |-> "set",    with |-> "stabilize_hashset_serialization"],
       [name |-> "simple_id_rules",        type |-> "set",    with |-> "stabilize_hashset_serialization"],
       [name |-> "complex_class_rules",    type |-> "map",    with |-> "stabilize_hashmap_serialization"],
       [name |-> "complex_id_rules",       type |-> "map",    with |-> "stabilize_hashmap_serialization"],
       [name |-> "specific_rules",         type |-> "opaque", with |-> "derive"],
       [name |-> "misc_generic_selectors", type |-> "set",    with |-> "stabilize_hashset_serialization"],
       [name |-> "scriptlets",             type |-> "opaque", with |-> "derive"] >>

\* the reader's declaration with two neighbouring fields in the other order
DeserializeFormatSwapped ==
    << [name |-> "csp",                    type |-> "list",   default |-> FALSE],
       [name |-> "exceptions",             type |-> "list",   default |-> FALSE],
       [name |-> "importants",             type |-> "list",   default |-> FALSE],
       [name |-> "redirects",              type |-> "list",   default |-> FALSE],
       [name |-> "filters_tagged",         type |-> "list",   default |-> FALSE],
       [name |-> "filters",                type |-> "list",   default |-> FALSE],
       [name |-> "generic_hide",           type |-> "list",   default |-> FALSE],
       [name |-> "tagged_filters_all",     type |-> "list",   default |-> FALSE],
       [name |-> "enable_optimizations",   type |-> "bool",   default |-> FALSE],
       [name |-> "resources",              type |-> "opaque", default |-> FALSE],
       [name |-> "simple_id_rules",        type |-> "set",    default |-> FALSE],
       [name |-> "simple_class_rules",     type |-> "set",    default |-> FALSE],
       [name |-> "complex_class_rules",    type |-> "map",    default |-> FALSE],
       [name |-> "complex_id_rules",       type |-> "map",    default |-> FALSE],
       [name |-> "specific_rules",         type |-> "opaque", default |-> FALSE],
       [name |-> "misc_generic_selectors", type |-> "set",    default |-> FALSE],
       [name |-> "scriptlets",             type |-> "opaque", default |-> FALSE] >>

\* struct DeserializeFormat: the fields in declaration order; no field carries
\* #[serde(default)]
DeserializeFormat ==
    << [name |-> "csp",                    type |-> "list",   default |-> FALSE],
       [name |-> "exceptions",             type |-> "list",   default |-> FALSE],
       [name |-> "importants",             type |-> "list",   default |-> FALSE],
       [name |-> "redirects",              type |-> "list",   default |-> FALSE],
       [name |-> "filters_tagged",         type |-> "list",   default |-> FALSE],
       [name |-> "filters",                type |-> "list",   default |-> FALSE],
       [name |-> "generic_hide",           type |-> "list",   default |-> FALSE],
       [name |-> "tagged_filters_all",     type |-> "list",   default |-> FALSE],
       [name |-> "enable_optimizations",   type |-> "bool",   default |-> FALSE],
       [name |-> "resources",              type |-> "opaque", default |-> FALSE],
       [name |-> "simple_class_rules",     type |-> "set",    default |-> FALSE],
       [name |-> "simple_id_rules",        type |-> "set",    default |-> FALSE],
       [name |-> "complex_class_rules",    type |-> "map",    default |-> FALSE],
       [name |-> "complex_id_rules",       type |-> "map",    default |-> FALSE],
       [name |-> "specific_rules",         type |-> "opaque", default |-> FALSE],
       [name |-> "misc_generic_selectors", type |-> "set",    default |-> FALSE],
       [name |-> "scriptlets",             type |-> "opaque", default |-> FALSE] >>

\* the persisted fields held by each of the two engine-facing structs
BlockerFields ==
    {"csp", "exceptions", "importants", "redirects", "filters_tagged", "filters",
     "generic_hide", "tagged_filters_all", "enable_optimizations", "resources"}
CfcFields ==
    {"simple_class_rules", "simple_id_rules", "complex_class_rules",
     "complex_id_rules", "specific_rules", "misc_generic_selectors", "scriptlets"}

FieldNames == {SerializeFormat[i].name : i \in 1..Len(SerializeFormat)}
TypeOf(name) ==
    SerializeFormat[CHOOSE i \in 1..Len(SerializeFormat) : SerializeFormat[i].name = name].type

----------------------------------------------------------------------------
(* Framing constants *)

\* super::ADBLOCK_RUST_DAT_MAGIC: the N-byte magic constant
ADBLOCK_RUST_DAT_MAGIC == <<209, 217, 58, 175>>
\* the version byte pushed after the magic
VERSION == 0

----------------------------------------------------------------------------
(* MessagePack encoding: rmps::encode::write with the default configuration *)
(* writes a struct as an array of its fields in declaration order           *)

ArrayHeader(n) == IF n < 16 THEN <<144 + n>> ELSE <<220, n \div 256, n % 256>>
MapHeader(n) == <<128 + n>>

EncodeRule(r) == <<r>>
EncodeBool(b) == IF b THEN <<195>> ELSE <<194>>
EncodeOpaque(x) == <<x>>
EncodeString(str) == <<160 + Len(str)>> \o str

EncodeRuleList(l) ==
    ArrayHeader(Len(l)) \o Flatten([i \in 1..Len(l) |-> EncodeRule(l[i])])
EncodeStringList(l) ==
    ArrayHeader(Len(l)) \o Flatten([i \in 1..Len(l) |-> EncodeString(l[i])])
EncodeEntries(m) ==
    MapHeader(Len(m)) \o
    Flatten([i \in 1..Len(m) |-> EncodeString(m[i][1]) \o EncodeStringList(m[i][2])])

\* super::utils: the set is copied into a sequence sorted by the encoded form
\* of its elements, and that sequence is written
stabilize_hashset_serialization(set) ==
    EncodeStringList(
        SortSeq(set, LAMBDA a, b : LexLess(EncodeString(a), EncodeString(b))))

\* super::utils: the entries are sorted by key, each value written as it is
stabilize_hashmap_serialization(map) ==
    EncodeEntries(SortSeq(map, LAMBDA a, b : LexLess(a[1], b[1])))

\* the derived Serialize of one field: hash collections in native iteration order
DeriveSerialize(type, v) ==
    CASE type = "list"   -> EncodeRuleList(v)
      [] type = "bool"   -> EncodeBool(v)
      [] type = "opaque" -> EncodeOpaque(v)
      [] type = "set"    -> EncodeStringList(v)
      [] type = "map"    -> EncodeEntries(v)

\* one field of the record, written as its declaration says
EncodeField(decl, v) ==
    CASE decl.with = "stabilize_hashset_serialization" -> stabilize_hashset_serialization(v)
      [] decl.with = "stabilize_hashmap_serialization" -> stabilize_hashmap_serialization(v)
      [] OTHER -> DeriveSerialize(decl.type, v)

\* #[derive(Serialize)] on a struct declared as decls, applied to the view fmt
EncodeStruct(decls, fmt) ==
    ArrayHeader(Len(decls)) \o
    Flatten([i \in 1..Len(decls) |-> EncodeField(decls[i], fmt[decls[i].name])])

\* SerializeFormat::serialize with a header that pushes the wrong version byte
serialize_wrong_version(fmt) ==
    (ADBLOCK_RUST_DAT_MAGIC \o <<VERSION + 1>>) \o EncodeStruct(SerializeFormat, fmt)

\* SerializeFormat::serialize
serialize(fmt) ==
    (ADBLOCK_RUST_DAT_MAGIC \o <<VERSION>>) \o EncodeStruct(SerializeFormat, fmt)

----------------------------------------------------------------------------
(* MessagePack decoding: rmps::decode::from_read driven by the derived       *)
(* Deserialize.  A decoder returns [ok, val, rest] or [ok, err].             *)

Decoded(v, rest) == [ok |-> TRUE, val |-> v, rest |-> rest, err |-> NoValue]
Failed(e) == [ok |-> FALSE, val |-> NoValue, rest |-> <<>>, err |-> e]

\* the length announced by an array marker
DecodeArrayHeader(b) ==
    IF b = <<>> THEN Failed("InvalidMarkerRead")
    ELSE IF b[1] \in 144..159 THEN Decoded(b[1] - 144, Tail(b))
    ELSE IF b[1] = 220
         THEN IF Len(b) < 3 THEN Failed("InvalidDataRead")
              ELSE Decoded(b[2] * 256 + b[3], SubSeq(b, 4, Len(b)))
    ELSE Failed("TypeMismatch")

DecodeMapHeader(b) ==
    IF b = <<>> THEN Failed("InvalidMarkerRead")
    ELSE IF b[1] \in 128..143 THEN Decoded(b[1] - 128, Tail(b))
    ELSE Failed("TypeMismatch")

DecodeInt(b) ==
    IF b = <<>> THEN Failed("InvalidMarkerRead")
    ELSE IF b[1] \in 0..127 THEN Decoded(b[1], Tail(b))
    ELSE Failed("TypeMismatch")

DecodeBool(b) ==
    IF b = <<>> THEN Failed("InvalidMarkerRead")
    ELSE IF b[1] = 195 THEN Decoded(TRUE, Tail(b))
    ELSE IF b[1] = 194 THEN Decoded(FALSE, Tail(b))
    ELSE Failed("TypeMismatch")

DecodeString(b) ==
    IF b = <<>> THEN Failed("InvalidMarkerRead")
    ELSE IF b[1] \in 160..191
         THEN LET n == b[1] - 160
              IN  IF Len(b) < 1 + n THEN Failed("InvalidDataRead")
                  ELSE Decoded(SubSeq(b, 2, n + 1), SubSeq(b, n + 2, Len(b)))
    ELSE Failed("TypeMismatch")

\* the ? of a decoder: an error is returned as it is, a value is passed on
AndThen(r, K(_)) == IF r.ok THEN K(r) ELSE r

\* one element of kind, and n elements of kind in sequence
RECURSIVE DecodeElement(_, _)
RECURSIVE DecodeItems(_, _, _, _)
DecodeElement(kind, b) ==
    CASE kind = "rule"   -> DecodeInt(b)
      [] kind = "string" -> DecodeString(b)
      [] kind = "strings" ->
            AndThen(DecodeArrayHeader(b),
                    LAMBDA h : DecodeItems("string", h.val, h.rest, <<>>))
      [] kind = "entry" ->
            AndThen(DecodeString(b),
                    LAMBDA k : AndThen(DecodeElement("strings", k.rest),
                                       LAMBDA v : Decoded(<<k.val, v.val>>, v.rest)))
DecodeItems(kind, n, b, acc) ==
    IF n = 0 THEN Decoded(acc, b)
    ELSE AndThen(DecodeElement(kind, b),
                 LAMBDA e : DecodeItems(kind, n - 1, e.rest, Append(acc, e.val)))

\* the Deserialize of one field type
DecodeField(type, b) ==
    CASE type = "list" ->
            AndThen(DecodeArrayHeader(b),
                    LAMBDA h : DecodeItems("rule", h.val, h.rest, <<>>))
      [] type = "bool" -> DecodeBool(b)
      [] type = "opaque" -> DecodeInt(b)
      [] type = "set" ->
            AndThen(DecodeElement("strings", b),
                    LAMBDA items : Decoded(CollectSet(items.val, <<>>), items.rest))
      [] type = "map" ->
            AndThen(DecodeMapHeader(b),
                    LAMBDA h : AndThen(DecodeItems("entry", h.val, h.rest, <<>>),
                        LAMBDA entries :
                            Decoded(CollectMap(entries.val, <<>>), entries.rest)))

\* the derived visit_seq: field i is the next element of the array; when the
\* array has no element left, a field takes its default only if it is declared
\* #[serde(default)], and is an invalid_length error otherwise; elements left
\* after the last field are not read
RECURSIVE VisitSeq(_, _, _, _, _)
VisitSeq(decls, i, left, b, acc) ==
    IF i > Len(decls) THEN Decoded(acc, b)
    ELSE IF left = 0
         THEN IF decls[i].default
              THEN VisitSeq(decls, i + 1, 0, b, Append(acc, DefaultOf(decls[i].type)))
              ELSE Failed("invalid_length")
    ELSE AndThen(DecodeField(decls[i].type, b),
                 LAMBDA e : VisitSeq(decls, i + 1, left - 1, e.rest, Append(acc, e.val)))

\* the struct named by its fields, from the values read in declaration order
StructOf(decls, vals) ==
    [n \in {decls[i].name : i \in 1..Len(decls)} |->
        vals[CHOOSE i \in 1..Len(decls) : decls[i].name = n]]

\* a struct decoder that rejects an array longer than the struct
DeserializeStructExact(decls, b) ==
    AndThen(DecodeArrayHeader(b),
            LAMBDA h : IF h.val > Len(decls) THEN Failed("LengthMismatch")
                       ELSE AndThen(VisitSeq(decls, 1, h.val, h.rest, <<>>),
                                    LAMBDA r : Decoded(StructOf(decls, r.val), r.rest)))

\* #[derive(Deserialize)] on a struct declared as decls, read by from_read
DeserializeStruct(decls, b) ==
    AndThen(DecodeArrayHeader(b),
            LAMBDA h : AndThen(VisitSeq(decls, 1, h.val, h.rest, <<>>),
                               LAMBDA r : Decoded(StructOf(decls, r.val), r.rest)))

Ok(v) == [tag |-> "Ok", val |-> v, err |-> NoValue]
Err(e) == [tag |-> "Err", val |-> NoValue, err |-> e]
Panic(why) == [tag |-> "Panic", val |-> NoValue, err |-> why]
NotCalled == [tag |-> "NotCalled", val |-> NoValue, err |-> NoValue]

\* Ok(format), or the decoder's error converted by ?
ResultOf(r) == IF r.ok THEN Ok(r.val) ELSE Err(r.err)

starts_with(bytes, prefix) ==
    /\ Len(bytes) >= Len(prefix)
    /\ SubSeq(bytes, 1, Len(prefix)) = prefix

\* DeserializeFormat::deserialize
deserialize(bytes) ==
    LET N == Len(ADBLOCK_RUST_DAT_MAGIC)
    IN  IF ~starts_with(bytes, ADBLOCK_RUST_DAT_MAGIC)
        THEN Panic("assertion failed: starts_with")
        ELSE IF Len(bytes) < N + 1
        THEN Panic("index out of bounds")
        ELSE IF bytes[N + 1] # VERSION
        THEN Panic("assertion failed: version")
        ELSE ResultOf(DeserializeStruct(DeserializeFormat,
                                        SubSeq(bytes, N + 2, Len(bytes))))

----------------------------------------------------------------------------
(* Conversions between the engine and the two formats *)

\* Default::default() of the fields that are not persisted
NoTags == {}
EmptyPool == "empty"
\* the object pool of an engine that has matched requests
UsedPool == "used"

\* the view with the tagged bucket bound to the wrong engine field
SerializeFormatFromSlip(b, c) ==
    [csp |-> b.csp, exceptions |-> b.exceptions, importants |-> b.importants,
     redirects |-> b.redirects, filters_tagged |-> b.filters,
     filters |-> b.filters, generic_hide |-> b.generic_hide,
     tagged_filters_all |-> b.tagged_filters_all,
     enable_optimizations |-> b.enable_optimizations,
     resources |-> b.resources,
     simple_class_rules |-> c.simple_class_rules,
     simple_id_rules |-> c.simple_id_rules,
     complex_class_rules |-> c.complex_class_rules,
     complex_id_rules |-> c.complex_id_rules,
     specific_rules |-> c.specific_rules,
     misc_generic_selectors |-> c.misc_generic_selectors,
     scriptlets |-> c.scriptlets]

\* the view with the tagged bucket written only while a tag is enabled
SerializeFormatFromTagged(b, c) ==
    [csp |-> b.csp, exceptions |-> b.exceptions, importants |-> b.importants,
     redirects |-> b.redirects,
     filters_tagged |-> IF b.tags_enabled = {} THEN <<>> ELSE b.filters_tagged,
     filters |-> b.filters, generic_hide |-> b.generic_hide,
     tagged_filters_all |-> b.tagged_filters_all,
     enable_optimizations |-> b.enable_optimizations,
     resources |-> b.resources,
     simple_class_rules |-> c.simple_class_rules,
     simple_id_rules |-> c.simple_id_rules,
     complex_class_rules |-> c.complex_class_rules,
     complex_id_rules |-> c.complex_id_rules,
     specific_rules |-> c.specific_rules,
     misc_generic_selectors |-> c.misc_generic_selectors,
     scriptlets |-> c.scriptlets]

\* impl From<(&Blocker, &CosmeticFilterCache)> for SerializeFormat
SerializeFormatFrom(b, c) ==
    [csp |-> b.csp, exceptions |-> b.exceptions, importants |-> b.importants,
     redirects |-> b.redirects, filters_tagged |-> b.filters_tagged,
     filters |-> b.filters, generic_hide |-> b.generic_hide,
     tagged_filters_all |-> b.tagged_filters_all,
     enable_optimizations |-> b.enable_optimizations,
     resources |-> b.resources,
     simple_class_rules |-> c.simple_class_rules,
     simple_id_rules |-> c.simple_id_rules,
     complex_class_rules |-> c.complex_class_rules,
     complex_id_rules |-> c.complex_id_rules,
     specific_rules |-> c.specific_rules,
     misc_generic_selectors |-> c.misc_generic_selectors,
     scriptlets |-> c.scriptlets]

\* the conversion with one selector set moved into both of its neighbours
EngineFromSlip(v) ==
    [blocker |->
        [csp |-> v.csp, exceptions |-> v.exceptions, importants |-> v.importants,
         redirects |-> v.redirects, filters_tagged |-> v.filters_tagged,
         filters |-> v.filters, generic_hide |-> v.generic_hide,
         tags_enabled |-> NoTags,
         tagged_filters_all |-> v.tagged_filters_all,
         enable_optimizations |-> v.enable_optimizations,
         resources |-> v.resources,
         pool |-> EmptyPool],
     cfc |->
        [simple_class_rules |-> v.simple_class_rules,
         simple_id_rules |-> v.simple_class_rules,
         complex_class_rules |-> v.complex_class_rules,
         complex_id_rules |-> v.complex_id_rules,
         specific_rules |-> v.specific_rules,
         misc_generic_selectors |-> v.misc_generic_selectors,
         scriptlets |-> v.scriptlets]]

\* impl From<DeserializeFormat> for (Blocker, CosmeticFilterCache)
EngineFrom(v) ==
    [blocker |->
        [csp |-> v.csp, exceptions |-> v.exceptions, importants |-> v.importants,
         redirects |-> v.redirects, filters_tagged |-> v.filters_tagged,
         filters |-> v.filters, generic_hide |-> v.generic_hide,
         tags_enabled |-> NoTags,
         tagged_filters_all |-> v.tagged_filters_all,
         enable_optimizations |-> v.enable_optimizations,
         resources |-> v.resources,
         pool |-> EmptyPool],
     cfc |->
        [simple_class_rules |-> v.simple_class_rules,
         simple_id_rules |-> v.simple_id_rules,
         complex_class_rules |-> v.complex_class_rules,
         complex_id_rules |-> v.complex_id_rules,
         specific_rules |-> v.specific_rules,
         misc_generic_selectors |-> v.misc_generic_selectors,
         scriptlets |-> v.scriptlets]]

----------------------------------------------------------------------------
(* The engine states the owner can hold *)

\* Engine::default(): every persisted field empty
EmptyEngine == [n \in FieldNames |-> DefaultOf(TypeOf(n))]

\* an engine with every persisted field populated, no two fields alike
FullEngine ==
    [csp |-> <<1>>, exceptions |-> <<2>>, importants |-> <<3>>,
     redirects |-> <<1, 2>>, filters_tagged |-> <<2, 1>>,
     filters |-> <<1, 3>>, generic_hide |-> <<3, 1>>,
     tagged_filters_all |-> <<2, 3>>,
     enable_optimizations |-> TRUE,
     resources |-> 1,
     simple_class_rules |-> << <<97>> >>,
     simple_id_rules |-> << <<97, 98>> >>,
     complex_class_rules |-> << << <<97>>, << <<97>>, <<97, 98>> >> >> >>,
     complex_id_rules |-> << << <<98>>, << <<97, 98>>, <<97>> >> >> >>,
     specific_rules |-> 2,
     misc_generic_selectors |-> << <<98>>, <<97>> >>,
     scriptlets |-> 3]

Backgrounds == {EmptyEngine, FullEngine}

BlockerOf(st, tags, pool) ==
    [csp |-> st.csp, exceptions |-> st.exceptions, importants |-> st.importants,
     redirects |-> st.redirects, filters_tagged |-> st.filters_tagged,
     filters |-> st.filters, generic_hide |-> st.generic_hide,
     tags_enabled |-> tags,
     tagged_filters_all |-> st.tagged_filters_all,
     enable_optimizations |-> st.enable_optimizations,
     resources |-> st.resources,
     pool |-> pool]

CfcOf(st) ==
    [simple_class_rules |-> st.simple_class_rules,
     simple_id_rules |-> st.simple_id_rules,
     complex_class_rules |-> st.complex_class_rules,
     complex_id_rules |-> st.complex_id_rules,
     specific_rules |-> st.specific_rules,
     misc_generic_selectors |-> st.misc_generic_selectors,
     scriptlets |-> st.scriptlets]

----------------------------------------------------------------------------
(* The byte slices a caller can hand to deserialize *)

Header == ADBLOCK_RUST_DAT_MAGIC \o <<VERSION>>

\* a blob cut at every offset strictly before its end
Truncations(blob) == {SubSeq(blob, 1, k) : k \in 0..(Len(blob) - 1)}

\* a blob whose magic or version byte is not the expected one
Foreign(blob) ==
    {[blob EXCEPT ![1] = 0],
     [blob EXCEPT ![Len(ADBLOCK_RUST_DAT_MAGIC)] = 0],
     [blob EXCEPT ![Len(ADBLOCK_RUST_DAT_MAGIC) + 1] = VERSION + 1]}

\* the record an older schema revision writes: the first K fields only
OlderRecord(fmt, K) == Header \o EncodeStruct(SubSeq(SerializeFormat, 1, K), fmt)
OlderRecords(fmt) == {OlderRecord(fmt, K) : K \in 0..(Len(SerializeFormat) - 1)}

\* the encoded fields a newer schema revision may append: a flag, a rule list
ExtraFields == {EncodeBool(TRUE), EncodeRuleList(<<1>>)}
\* the record a newer schema revision writes: the known fields, then the extras
NewerRecord(fmt, extras) ==
    Header \o ArrayHeader(Len(SerializeFormat) + Len(extras))
           \o Flatten([i \in 1..Len(SerializeFormat) |->
                          EncodeField(SerializeFormat[i], fmt[SerializeFormat[i].name])])
           \o Flatten(extras)
NewerRecords(fmt) == {NewerRecord(fmt, x) : x \in SeqsOf(ExtraFields, 1, MaxExtra)}

\* once a blob has been written: the blob, and what storage, transport or
\* another schema revision can make of it
Inputs ==
    IF pc # "serialized" THEN {}
    ELSE {[origin |-> "blob", bytes |-> output]}
         \cup {[origin |-> "truncated", bytes |-> b] : b \in Truncations(output)}
         \cup {[origin |-> "foreign", bytes |-> b] : b \in Foreign(output)}
         \cup {[origin |-> "older", bytes |-> b] : b \in OlderRecords(format)}
         \cup {[origin |-> "newer", bytes |-> b] : b \in NewerRecords(format)}

----------------------------------------------------------------------------
(* The state machine: save the live engine, load an engine from bytes *)

Init ==
    /\ \E bg \in Backgrounds, f \in FieldNames, tags \in SUBSET Tags :
         \E v \in ValuesOf(TypeOf(f)) :
            /\ blocker = BlockerOf([bg EXCEPT ![f] = v], tags, UsedPool)
            /\ cfc = CfcOf([bg EXCEPT ![f] = v])
    /\ format = NoValue
    /\ output = NoValue
    /\ serialized = NoValue
    /\ origin = NoValue
    /\ result = NotCalled
    /\ engine = NoValue
    /\ pc = "live"

\* SerializeFormat::from((&blocker, &cfc))
View ==
    /\ pc = "live"
    /\ format' = SerializeFormatFrom(blocker, cfc)
    /\ pc' = "viewed"
    /\ UNCHANGED <<blocker, cfc, output, serialized, origin, result, engine>>

\* format.serialize()
Serialize ==
    /\ pc = "viewed"
    /\ output' = serialize(format)
    /\ pc' = "serialized"
    /\ UNCHANGED <<blocker, cfc, format, serialized, origin, result, engine>>

\* DeserializeFormat::deserialize(bytes)
Deserialize(in) ==
    /\ pc = "serialized"
    /\ serialized' = in.bytes
    /\ origin' = in.origin
    /\ result' = deserialize(in.bytes)
    /\ pc' = "deserialized"
    /\ UNCHANGED <<blocker, cfc, format, output, engine>>

\* let (blocker, cfc) = format.into()
Convert ==
    /\ pc = "deserialized"
    /\ result.tag = "Ok"
    /\ engine' = EngineFrom(result.val)
    /\ pc' = "converted"
    /\ UNCHANGED <<blocker, cfc, format, output, serialized, origin, result>>

Next ==
    \/ View
    \/ Serialize
    \/ \E in \in Inputs : Deserialize(in)
    \/ Convert

Spec == Init /\ [][Next]_vars

----------------------------------------------------------------------------
(* Vocabulary of the properties *)

\* deserialize has been called
Loaded == pc \in {"deserialized", "converted"}

\* the bytes handed to deserialize were the blob serialize returned
OwnBlob == Loaded /\ origin = "blob"

\* serialize has just returned
Written == pc = "serialized"

\* the first N+1 bytes are the magic constant followed by the supported version
ValidHeader(bytes) == starts_with(bytes, Header)

\* observable equality of two values of a field type: hash collections by
\* membership (a map by its key -> value function), everything else exactly
SameValue(type, x, y) ==
    CASE type = "set" -> Members(x) = Members(y)
      [] type = "map" -> MapOf(x) = MapOf(y)
      [] OTHER -> x = y

\* the persisted field n of the live engine
LiveField(n) == IF n \in BlockerFields THEN blocker[n] ELSE cfc[n]
\* the persisted field n of the rebuilt engine
RebuiltField(n) == IF n \in BlockerFields THEN engine.blocker[n] ELSE engine.cfc[n]

\* every native iteration order a hash collection with these entries can have
Orders(h) == {t \in [1..Len(h) -> Range(h)] : Injective(t)}

\* the canonical field order of the binary schema
CanonicalOrder ==
    <<"csp", "exceptions", "importants", "redirects", "filters_tagged", "filters",
      "generic_hide", "tagged_filters_all", "enable_optimizations", "resources",
      "simple_class_rules", "simple_id_rules", "complex_class_rules",
      "complex_id_rules", "specific_rules", "misc_generic_selectors", "scriptlets">>

\* the values found at positions 1..17 of the record inside a blob
WrittenValues(blob) ==
    LET payload == SubSeq(blob, Len(Header) + 1, Len(blob))
        h == DecodeArrayHeader(payload)
    IN  VisitSeq(SerializeFormat, 1, h.val, h.rest, <<>>).val

----------------------------------------------------------------------------
(* C1 *)

\* C1: round-trip identity.  Deserializing the blob that serialize returned
\* succeeds, and the engine converted from it is observably equal to the live
\* engine: every bucket and the tagged-rule pool hold the same rules in the
\* same order, the selector sets and maps have the same membership (each map
\* value in the same order), the flag, the resource tables and the hostname
\* rule database are the same.
RoundTripIdentity ==
    /\ OwnBlob => result.tag = "Ok"
    /\ (OwnBlob /\ pc = "converted") =>
          \A n \in FieldNames : SameValue(TypeOf(n), RebuiltField(n), LiveField(n))

\* a populated engine went through the round trip, and a selector set came
\* back with another iteration order than the live one had
RoundTripWitness ==
    /\ OwnBlob /\ pc = "converted"
    /\ blocker.redirects = <<1, 2>>
    /\ blocker.filters_tagged # blocker.filters
    /\ Len(cfc.misc_generic_selectors) = 2
    /\ engine.cfc.misc_generic_selectors # cfc.misc_generic_selectors

----------------------------------------------------------------------------
(* C2 *)

\* C2: determinism.  The blob does not depend on the native iteration order of
\* the hash-based collections: an engine with the same members in its three
\* selector sets and two selector maps, held in any other iteration order,
\* serializes to the same bytes.
Determinism ==
    Written =>
        \A o1 \in Orders(cfc.simple_class_rules), o2 \in Orders(cfc.simple_id_rules),
           o3 \in Orders(cfc.complex_class_rules), o4 \in Orders(cfc.complex_id_rules),
           o5 \in Orders(cfc.misc_generic_selectors) :
            serialize(SerializeFormatFrom(blocker,
                [cfc EXCEPT !.simple_class_rules = o1, !.simple_id_rules = o2,
                            !.complex_class_rules = o3, !.complex_id_rules = o4,
                            !.misc_generic_selectors = o5])) = output

\* a blob was written from an engine whose selector map and selector set are
\* both held in an order that is not the sorted one
DeterminismWitness ==
    /\ Written
    /\ Len(cfc.complex_class_rules) = 2
    /\ LexLess(cfc.complex_class_rules[2][1], cfc.complex_class_rules[1][1])
    /\ Len(cfc.misc_generic_selectors) = 2
    /\ LexLess(cfc.misc_generic_selectors[2], cfc.misc_generic_selectors[1])

----------------------------------------------------------------------------
(* C3 *)

\* C3: header rejection.  For every input whose first N+1 bytes are not the
\* magic constant followed by the supported version byte, deserialize returns
\* an error value and does not panic.
HeaderRejection ==
    (Loaded /\ ~ValidHeader(serialized)) => result.tag = "Err"

----------------------------------------------------------------------------
(* C4 *)

\* C4: truncation rejection.  For every strict prefix of a blob that serialize
\* returned, deserialize returns a decode error: neither Ok nor a panic.
TruncationRejection ==
    (Loaded /\ origin = "truncated") => result.tag = "Err"

----------------------------------------------------------------------------
(* C5 *)

\* C5: older record, newer reader.  A record holding only the first K fields
\* of the canonical sequence (K < 17) is decoded successfully, the K fields as
\* written and every absent field with its default value.
OlderRecordDecodes ==
    \A K \in 0..(Len(DeserializeFormat) - 1) :
        (Loaded /\ origin = "older" /\ serialized = OlderRecord(format, K)) =>
            /\ result.tag = "Ok"
            /\ \A i \in 1..Len(DeserializeFormat) :
                  LET d == DeserializeFormat[i]
                  IN  IF i <= K
                      THEN SameValue(d.type, result.val[d.name], format[d.name])
                      ELSE result.val[d.name] = DefaultOf(d.type)

----------------------------------------------------------------------------
(* C6 *)

\* C6: newer record, older reader.  A record holding the 17 known fields
\* followed by M > 0 appended fields is decoded successfully, the 17 fields
\* are read as they were written, and the appended fields are ignored.
NewerRecordDecodes ==
    (Loaded /\ origin = "newer") =>
        /\ result.tag = "Ok"
        /\ DOMAIN result.val = FieldNames
        /\ \A n \in FieldNames : SameValue(TypeOf(n), result.val[n], format[n])

\* a record with appended fields, written from a populated engine, was decoded
NewerRecordWitness ==
    /\ Loaded /\ origin = "newer"
    /\ Len(serialized) > Len(output)
    /\ format.csp # <<>>
    /\ format.scriptlets # 0
    /\ result.tag = "Ok"

----------------------------------------------------------------------------
(* C7 *)

\* C7: framing on write.  Every blob is the N magic bytes, then the version
\* byte 0, then the encoded record; the reader accepts that header, and accepts
\* no other.
FramingOnWrite ==
    /\ Written =>
          /\ Len(output) > Len(ADBLOCK_RUST_DAT_MAGIC) + 1
          /\ SubSeq(output, 1, Len(ADBLOCK_RUST_DAT_MAGIC)) = ADBLOCK_RUST_DAT_MAGIC
          /\ output[Len(ADBLOCK_RUST_DAT_MAGIC) + 1] = 0
          /\ SubSeq(output, Len(ADBLOCK_RUST_DAT_MAGIC) + 2, Len(output))
                = EncodeStruct(SerializeFormat, format)
    /\ OwnBlob => result.tag # "Panic"
    /\ (Loaded /\ result.tag # "Panic") =>
          SubSeq(serialized, 1, Len(ADBLOCK_RUST_DAT_MAGIC) + 1)
             = SubSeq(output, 1, Len(ADBLOCK_RUST_DAT_MAGIC) + 1)

\* a blob written from a populated engine was handed to the reader, which
\* went past the header
FramingWitness ==
    /\ pc = "deserialized"
    /\ origin = "blob"
    /\ serialized = output
    /\ blocker.csp # <<>>
    /\ result.tag # "Panic"

----------------------------------------------------------------------------
(* C8 *)

\* C8: consuming conversion.  Each of the 17 parsed fields is moved unchanged
\* into exactly one of the two structs, the ten network fields into the
\* Blocker and the seven cosmetic fields into the CosmeticFilterCache; the
\* fields that are not persisted (tags_enabled, pool) take their default.
ConsumingConversion ==
    pc = "converted" =>
        /\ BlockerFields \cap CfcFields = {}
        /\ BlockerFields \cup CfcFields = DOMAIN result.val
        /\ DOMAIN engine.blocker = BlockerFields \cup {"tags_enabled", "pool"}
        /\ DOMAIN engine.cfc = CfcFields
        /\ \A n \in BlockerFields : engine.blocker[n] = result.val[n]
        /\ \A n \in CfcFields : engine.cfc[n] = result.val[n]
        /\ engine.blocker.tags_enabled = {}
        /\ engine.blocker.pool = EmptyPool

\* a parsed format with two different selector sets was converted, while the
\* live engine had a tag enabled and a used pool
ConversionWitness ==
    /\ pc = "converted"
    /\ result.val.simple_class_rules # result.val.simple_id_rules
    /\ result.val.simple_class_rules # <<>>
    /\ blocker.tags_enabled # {}
    /\ blocker.pool = UsedPool

----------------------------------------------------------------------------
(* C9 *)

\* C9: schema agreement.  Writer and reader declare the same 17 fields in the
\* canonical order; the value found at position i of a written record is the
\* live engine's field of the canonical name i, and it is the value the reader
\* holds in its field of that name.
SchemaAgreement ==
    /\ Len(SerializeFormat) = Len(CanonicalOrder)
    /\ Len(DeserializeFormat) = Len(CanonicalOrder)
    /\ \A i \in 1..Len(CanonicalOrder) :
          /\ SerializeFormat[i].name = CanonicalOrder[i]
          /\ DeserializeFormat[i].name = CanonicalOrder[i]
          /\ DeserializeFormat[i].type = SerializeFormat[i].type
    /\ Written =>
          LET w == WrittenValues(output)
          IN  \A i \in 1..Len(CanonicalOrder) :
                 SameValue(TypeOf(CanonicalOrder[i]), w[i], LiveField(CanonicalOrder[i]))
    /\ (OwnBlob /\ result.tag = "Ok") =>
          LET w == WrittenValues(output)
          IN  \A i \in 1..Len(CanonicalOrder) : result.val[CanonicalOrder[i]] = w[i]

\* the blob of an engine whose neighbouring fields of one type differ was read
SchemaWitness ==
    /\ OwnBlob /\ result.tag = "Ok"
    /\ cfc.simple_class_rules # cfc.simple_id_rules
    /\ cfc.complex_class_rules # cfc.complex_id_rules
    /\ blocker.csp # blocker.exceptions
    /\ blocker.resources # cfc.specific_rules

----------------------------------------------------------------------------
(* C10 *)

\* C10: the enabled tags are not persisted, the tagged bucket is.  An engine
\* that differs from the live one only in tags_enabled serializes to the same
\* bytes; after the round trip tags_enabled is empty and filters_tagged is the
\* live engine's.
TagsNotPersisted ==
    /\ Written =>
          \A tags \in SUBSET Tags :
              serialize(SerializeFormatFrom([blocker EXCEPT !.tags_enabled = tags], cfc))
                 = output
    /\ (OwnBlob /\ pc = "converted") =>
          /\ engine.blocker.tags_enabled = {}
          /\ engine.blocker.filters_tagged = blocker.filters_tagged

\* the rebuilt engine holds tagged filters with no tag enabled, and the live
\* engine had one enabled
TagsWitness ==
    /\ OwnBlob /\ pc = "converted"
    /\ blocker.tags_enabled # {}
    /\ engine.blocker.filters_tagged # <<>>
    /\ engine.blocker.tags_enabled = {}
====
